---- MODULE Spec2Model ----
(***************************************************************************)
(* Model of the LangGraph chatbot: the Streamlit front end (src/src/app.py)*)
(* and the checkpointed one-node graph behind it (src/src/backend.py).     *)
(*                                                                         *)
(* The module-level chatbot / checkpointer / db_conn are shared by every   *)
(* browser session of the process; st.session_state is per session.        *)
(* A turn is the body of handle_user_input: it appends the user message to *)
(* the session's message_history, then drives chatbot.stream, which loads  *)
(* the latest checkpoint of the thread, writes an "input" checkpoint with  *)
(* the user message merged in by add_messages, runs chat_node (llm.invoke) *)
(* and writes a "loop" checkpoint with the reply merged in.                *)
(***************************************************************************)
EXTENDS Integers, Sequences, FiniteSets, TLC

\* ---------------------------------------------------------------- bounds
MaxTurns == 2

MaxFragments == 2

\* browser sessions, numbered in the order in which they connect
Sessions == {1, 2}

\* the ids generate_thread_id hands out, in this order
ThreadIds == {1, 2}

\* Texts are sequences of characters. A character is a pair <<turn, n>>, so
\* that the texts of different turns differ: <<turn, 0>> is the text the
\* user submits in a turn, <<turn, n>> the n-th chunk the provider streams
\* back. A reply is the concatenation of at most MaxFragments chunks.
user_text(turn) == << <<turn, 0>> >>

VARIABLES
  checkpoints,      \* the checkpointer's table: per thread id its rows, oldest first
  recency,          \* the thread ids that have rows, ordered by their newest row (newest last)
  appended,         \* ghost: per thread, the messages whose checkpoint put succeeded, in put order
  nextThreadId,     \* generate_thread_id: the next fresh id
  turns,            \* number of turns started so far; message ids derive from it
  pc,               \* per session: position in the script
  thread_id,        \* st.session_state.thread_id
  message_history,  \* st.session_state.message_history
  chat_threads,     \* st.session_state.chat_threads
  run,              \* per session: the locals of the chatbot.stream call in flight
  last              \* ghost: the call that returned in the step just taken, with what the
                    \* store did and what the caller got; NoCall after a step inside a turn

vars == <<checkpoints, recency, appended, nextThreadId, turns, pc, thread_id,
          message_history, chat_threads, run, last>>

NoThread == 0

\* the locals of a graph run: the thread of its config, the number of rows
\* the thread had when the run loaded its checkpoint (parent) and the messages
\* loaded (base), the channel value (messages), and the caller's locals
NoRun == [thread_id |-> NoThread, parent |-> 0, base |-> <<>>, messages |-> <<>>,
          user_input |-> <<>>, turn |-> 0, full_response |-> <<>>, nfrag |-> 0]

\* op: "list" retrieve_all_threads, "read" get_conversation_history, "new"
\* reset_chat, "turn" handle_user_input; status: "ok", "store_error" (the store
\* raised) or "provider_error" (llm.invoke raised); result: what the caller
\* received, for a turn the thread's history the run had loaded; turn and
\* parent: of a turn, its number and the rows the thread had when it loaded
Returned(s, op, status, t, result) ==
  [session |-> s, op |-> op, status |-> status, thread_id |-> t, result |-> result,
   turn |-> 0, parent |-> 0]

TurnReturned(s, status, r) ==
  [session |-> s, op |-> "turn", status |-> status, thread_id |-> r.thread_id,
   result |-> r.base, turn |-> r.turn, parent |-> r.parent]

NoCall == Returned(0, "none", "ok", NoThread, <<>>)

\* ------------------------------------------------------------- messages
HumanMessage(content, id) == [type |-> "human", content |-> content, id |-> id]

AIMessage(content, id) == [type |-> "ai", content |-> content, id |-> id]

\* fresh ids: the uuid add_messages gives the user message of a turn and the
\* run id the provider gives its reply
human_id(turn) == 2 * turn - 1

ai_id(turn) == 2 * turn

Range(seq) == {seq[i] : i \in 1..Len(seq)}

Ids(msgs) == {msgs[i].id : i \in 1..Len(msgs)}

\* add_messages putting a new message in front of the list instead of at its end
add_messages_prepending(left, m) ==
  IF m.id \in Ids(left)
    THEN [i \in 1..Len(left) |-> IF left[i].id = m.id THEN m ELSE left[i]]
    ELSE <<m>> \o left

\* add_messages reducer of ChatState.messages for one new message: a message
\* whose id is already present replaces the old one in place, any other
\* message is appended at the end.
add_messages(left, m) ==
  IF m.id \in Ids(left)
    THEN [i \in 1..Len(left) |-> IF left[i].id = m.id THEN m ELSE left[i]]
    ELSE Append(left, m)

\* ---------------------------------------------------------- checkpointer
\* put with the thread id of the config ignored: every row lands in one thread
put_one_thread(cps, t, msgs) == [cps EXCEPT ![1] = Append(@, msgs)]

\* SqliteSaver.put: one more row for the thread, holding the full channel values.
put(cps, t, msgs) == [cps EXCEPT ![t] = Append(@, msgs)]

\* the thread of the newest row moves to the end of the recency order
touch(rec, t) == Append(SelectSeq(rec, LAMBDA x : x # t), t)

\* get_state falling back to the first thread for a thread without a checkpoint
get_state_fallback(cps, t) ==
  IF cps[t] # <<>> THEN cps[t][Len(cps[t])]
  ELSE IF cps[1] # <<>> THEN cps[1][Len(cps[1])] ELSE <<>>

\* chatbot.get_state(config).values.get('messages', []): the messages of the
\* newest checkpoint of the thread, [] for a thread without a checkpoint.
get_state(cps, t) ==
  IF cps[t] = <<>> THEN <<>> ELSE cps[t][Len(cps[t])]

\* get_conversation_history: an exception of the store is printed and [] returned.
get_conversation_history(cps, t, raised) ==
  IF raised THEN <<>> ELSE get_state(cps, t)

\* retrieve_all_threads: checkpointer.list(None) yields the rows newest first,
\* so thread ids enter the set in recency order; an exception is printed and
\* the ids collected so far are returned. k is the number of distinct ids
\* seen when the loop ends; without an exception it is all of them.
retrieve_all_threads(rec, k) ==
  {rec[i] : i \in (Len(rec) - k + 1)..Len(rec)}

\* list(all_threads): the ids of the set in some order
Perms(S) == {f \in [1..Cardinality(S) -> S] : \A i, j \in 1..Cardinality(S) : f[i] = f[j] => i = j}

\* -------------------------------------------------------------- app.py
\* load_conversation's conversion of stored messages to display dicts
role_of(msg) == IF msg.type = "human" THEN "user" ELSE "assistant"

to_history(msgs) == [i \in 1..Len(msgs) |-> [role |-> role_of(msgs[i]), content |-> msgs[i].content]]

Init ==
  /\ checkpoints = [t \in ThreadIds |-> <<>>]
  /\ recency = <<>>
  /\ appended = [t \in ThreadIds |-> <<>>]
  /\ nextThreadId = 1
  /\ turns = 0
  /\ pc = [s \in Sessions |-> "new"]
  /\ thread_id = [s \in Sessions |-> NoThread]
  /\ message_history = [s \in Sessions |-> <<>>]
  /\ chat_threads = [s \in Sessions |-> <<>>]
  /\ run = [s \in Sessions |-> NoRun]
  /\ last = NoCall

\* initialize_session_state on the first script run of a browser session.
\* The store may raise while checkpointer.list is read (raised), after k
\* distinct thread ids were seen; without an exception every row is read.
initialize_session_state(s, k, raised) ==
  /\ pc[s] = "new"
  /\ \A r \in Sessions : r < s => pc[r] # "new"
  /\ nextThreadId \in ThreadIds
  /\ raised \/ k = Len(recency)
  /\ \E listed \in Perms(retrieve_all_threads(recency, k)) :
       /\ chat_threads' = [chat_threads EXCEPT ![s] =
            IF nextThreadId \in Range(listed) THEN listed ELSE Append(listed, nextThreadId)]
       /\ last' = Returned(s, "list", IF raised THEN "store_error" ELSE "ok", nextThreadId, listed)
  /\ message_history' = [message_history EXCEPT ![s] = <<>>]
  /\ thread_id' = [thread_id EXCEPT ![s] = nextThreadId]
  /\ nextThreadId' = nextThreadId + 1
  /\ pc' = [pc EXCEPT ![s] = "idle"]
  /\ UNCHANGED <<checkpoints, recency, appended, turns, run>>

\* reset_chat that also saves an empty checkpoint under the new thread id
reset_chat_saving(s) ==
  /\ pc[s] = "idle"
  /\ nextThreadId \in ThreadIds
  /\ thread_id' = [thread_id EXCEPT ![s] = nextThreadId]
  /\ chat_threads' = [chat_threads EXCEPT ![s] =
       IF nextThreadId \in Range(@) THEN @ ELSE Append(@, nextThreadId)]
  /\ message_history' = [message_history EXCEPT ![s] = <<>>]
  /\ nextThreadId' = nextThreadId + 1
  /\ checkpoints' = put(checkpoints, nextThreadId, <<>>)
  /\ recency' = touch(recency, nextThreadId)
  /\ last' = Returned(s, "new", "ok", nextThreadId, <<>>)
  /\ UNCHANGED <<appended, turns, pc, run>>

\* reset_chat that does not add the new thread id to the sidebar list
reset_chat_not_listing(s) ==
  /\ pc[s] = "idle"
  /\ nextThreadId \in ThreadIds
  /\ thread_id' = [thread_id EXCEPT ![s] = nextThreadId]
  /\ message_history' = [message_history EXCEPT ![s] = <<>>]
  /\ nextThreadId' = nextThreadId + 1
  /\ last' = Returned(s, "new", "ok", nextThreadId, <<>>)
  /\ UNCHANGED <<checkpoints, recency, appended, turns, pc, chat_threads, run>>

\* reset_chat ("New Chat" button)
reset_chat(s) ==
  /\ pc[s] = "idle"
  /\ nextThreadId \in ThreadIds
  /\ thread_id' = [thread_id EXCEPT ![s] = nextThreadId]
  /\ chat_threads' = [chat_threads EXCEPT ![s] =
       IF nextThreadId \in Range(@) THEN @ ELSE Append(@, nextThreadId)]
  /\ message_history' = [message_history EXCEPT ![s] = <<>>]
  /\ nextThreadId' = nextThreadId + 1
  /\ last' = Returned(s, "new", "ok", nextThreadId, <<>>)
  /\ UNCHANGED <<checkpoints, recency, appended, turns, pc, run>>

\* load_conversation (a thread button of the sidebar)
load_conversation(s, t, raised) ==
  /\ pc[s] = "idle"
  /\ t \in Range(chat_threads[s])
  /\ thread_id' = [thread_id EXCEPT ![s] = t]
  /\ message_history' = [message_history EXCEPT ![s] =
       to_history(get_conversation_history(checkpoints, t, raised))]
  /\ last' = Returned(s, "read", IF raised THEN "store_error" ELSE "ok", t,
                      get_conversation_history(checkpoints, t, raised))
  /\ UNCHANGED <<checkpoints, recency, appended, nextThreadId, turns, pc, chat_threads, run>>

\* handle_user_input, lines 124-149 up to the first step of chatbot.stream:
\* the user message is appended to message_history, the config captures the
\* active thread id, and the graph run loads the thread's latest checkpoint.
submit(s) ==
  /\ pc[s] = "idle"
  /\ turns < MaxTurns
  /\ turns' = turns + 1
  /\ message_history' = [message_history EXCEPT ![s] =
       Append(@, [role |-> "user", content |-> user_text(turns + 1)])]
  /\ pc' = [pc EXCEPT ![s] = "input"]
  /\ run' = [run EXCEPT ![s] =
       [thread_id |-> thread_id[s],
        parent |-> Len(checkpoints[thread_id[s]]),
        base |-> get_state(checkpoints, thread_id[s]),
        messages |-> get_state(checkpoints, thread_id[s]),
        user_input |-> user_text(turns + 1), turn |-> turns + 1,
        full_response |-> <<>>, nfrag |-> 0]]
  /\ last' = NoCall
  /\ UNCHANGED <<checkpoints, recency, appended, nextThreadId, thread_id, chat_threads>>

\* the graph run applies the input {"messages": [HumanMessage(user_input)]}
\* to the loaded channel through add_messages and saves the "input" checkpoint.
\* A store exception here (raised) leaves chatbot.stream and handle_user_input
\* through line 145, with nothing written.
put_input(s, raised) ==
  /\ pc[s] = "input"
  /\ LET m == HumanMessage(run[s].user_input, human_id(run[s].turn))
         msgs == add_messages(run[s].messages, m)
     IN IF raised
          THEN /\ pc' = [pc EXCEPT ![s] = "idle"]
               /\ run' = [run EXCEPT ![s] = NoRun]
               /\ last' = TurnReturned(s, "store_error", run[s])
               /\ UNCHANGED <<checkpoints, recency, appended>>
          ELSE /\ checkpoints' = put(checkpoints, run[s].thread_id, msgs)
               /\ recency' = touch(recency, run[s].thread_id)
               /\ appended' = [appended EXCEPT ![run[s].thread_id] = Append(@, m)]
               /\ run' = [run EXCEPT ![s].messages = msgs]
               /\ pc' = [pc EXCEPT ![s] = "node"]
               /\ last' = NoCall
  /\ UNCHANGED <<nextThreadId, turns, thread_id, message_history, chat_threads>>

\* chunk[0].content of the n-th chunk the provider streams in a turn
chunk_content(turn, n) == << <<turn, n>> >>

\* stream_chunk that saves the reply assembled so far with every chunk
stream_chunk_saving_partial(s) ==
  /\ pc[s] = "node"
  /\ run[s].nfrag < MaxFragments
  /\ run' = [run EXCEPT ![s].full_response = @ \o chunk_content(run[s].turn, run[s].nfrag + 1),
                        ![s].nfrag = @ + 1]
  /\ checkpoints' = put(checkpoints, run[s].thread_id,
       add_messages(run[s].messages, AIMessage(run'[s].full_response, ai_id(run[s].turn))))
  /\ recency' = touch(recency, run[s].thread_id)
  /\ last' = NoCall
  /\ UNCHANGED <<appended, nextThreadId, turns, pc, thread_id, message_history, chat_threads>>

\* one iteration of the loop of lines 145-152: a chunk of the reply that
\* llm.invoke is producing inside chat_node reaches the caller
stream_chunk(s) ==
  /\ pc[s] = "node"
  /\ run[s].nfrag < MaxFragments
  /\ run' = [run EXCEPT ![s].full_response = @ \o chunk_content(run[s].turn, run[s].nfrag + 1),
                        ![s].nfrag = @ + 1]
  /\ last' = NoCall
  /\ UNCHANGED <<checkpoints, recency, appended, nextThreadId, turns, pc, thread_id,
                 message_history, chat_threads>>

\* a failing provider call whose partial reply is saved all the same
provider_fails_saving_partial(s) ==
  /\ pc[s] = "node"
  /\ pc' = [pc EXCEPT ![s] = "idle"]
  /\ checkpoints' = put(checkpoints, run[s].thread_id,
       add_messages(run[s].messages, AIMessage(run[s].full_response, ai_id(run[s].turn))))
  /\ recency' = touch(recency, run[s].thread_id)
  /\ run' = [run EXCEPT ![s] = NoRun]
  /\ last' = TurnReturned(s, "provider_error", run[s])
  /\ UNCHANGED <<appended, nextThreadId, turns, thread_id, message_history, chat_threads>>

\* llm.invoke raises inside chat_node: the exception leaves chatbot.stream and
\* handle_user_input; nothing is written after the input checkpoint
provider_fails(s) ==
  /\ pc[s] = "node"
  /\ pc' = [pc EXCEPT ![s] = "idle"]
  /\ run' = [run EXCEPT ![s] = NoRun]
  /\ last' = TurnReturned(s, "provider_error", run[s])
  /\ UNCHANGED <<checkpoints, recency, appended, nextThreadId, turns, thread_id,
                 message_history, chat_threads>>

\* chat_node returns {"messages": [response]}: the run merges the reply into
\* its channel through add_messages and saves the "loop" checkpoint; the
\* stream ends and lines 154-160 append the assembled reply to message_history
complete(s, raised) ==
  /\ pc[s] = "node"
  /\ LET m == AIMessage(run[s].full_response, ai_id(run[s].turn))
         msgs == add_messages(run[s].messages, m)
     IN IF raised
          THEN /\ last' = TurnReturned(s, "store_error", run[s])
               /\ UNCHANGED <<checkpoints, recency, appended, message_history>>
          ELSE /\ checkpoints' = put(checkpoints, run[s].thread_id, msgs)
               /\ recency' = touch(recency, run[s].thread_id)
               /\ appended' = [appended EXCEPT ![run[s].thread_id] = Append(@, m)]
               /\ message_history' = [message_history EXCEPT ![s] =
                    Append(@, [role |-> "assistant", content |-> run[s].full_response])]
               /\ last' = TurnReturned(s, "ok", run[s])
  /\ pc' = [pc EXCEPT ![s] = "idle"]
  /\ run' = [run EXCEPT ![s] = NoRun]
  /\ UNCHANGED <<nextThreadId, turns, thread_id, chat_threads>>

Next ==
  \/ \E s \in Sessions, k \in 0..Len(recency), raised \in BOOLEAN :
       initialize_session_state(s, k, raised)
  \/ \E s \in Sessions : reset_chat(s)
  \/ \E s \in Sessions, t \in ThreadIds, raised \in BOOLEAN : load_conversation(s, t, raised)
  \/ \E s \in Sessions : submit(s)
  \/ \E s \in Sessions, raised \in BOOLEAN : put_input(s, raised)
  \/ \E s \in Sessions : stream_chunk(s)
  \/ \E s \in Sessions : provider_fails(s)
  \/ \E s \in Sessions, raised \in BOOLEAN : complete(s, raised)

Spec == Init /\ [][Next]_vars

\* ------------------------------------------------------------ properties
IsPrefix(a, b) == Len(a) <= Len(b) /\ SubSeq(b, 1, Len(a)) = a

RECURSIVE IsSubseq(_, _)
\* a is b with some elements left out
IsSubseq(a, b) ==
  IF a = <<>> THEN TRUE
  ELSE IF b = <<>> THEN FALSE
  ELSE IF Head(a) = Head(b) THEN IsSubseq(Tail(a), Tail(b))
  ELSE IsSubseq(a, Tail(b))

\* a turn on thread t is in flight
InFlight(t) == \E s \in Sessions : pc[s] \in {"input", "node"} /\ run[s].thread_id = t

\* the stored history of thread t, as a read that the store answers returns it
History(t) == get_conversation_history(checkpoints, t, FALSE)

\* C1: whenever no turn is in flight on a thread, a read of the thread returns
\* exactly the messages appended to it (the user messages and the replies whose
\* checkpoint was saved), in the order appended: no gap, no reordering, no
\* duplicate.
C1_AppendOrder ==
  \A t \in ThreadIds : ~InFlight(t) => History(t) = appended[t]

\* C2: the stored history of every thread, and every checkpoint row of it,
\* holds only messages appended to that thread, in the thread's append order,
\* and no message is stored under two thread ids - however the turns of
\* different threads interleave.
C2_Isolation ==
  /\ \A t \in ThreadIds : \A i \in 1..Len(checkpoints[t]) :
        IsSubseq(checkpoints[t][i], appended[t])
  /\ \A t \in ThreadIds : IsSubseq(History(t), appended[t])
  /\ \A t1, t2 \in ThreadIds : t1 # t2 => Ids(History(t1)) \cap Ids(History(t2)) = {}

\* C2 witness: turn 1 ran on one thread and turn 2 on another, turn 2 started
\* and completed while turn 1's provider call was in flight (turn 1's reply is
\* the newest row), both are complete, and each history is exactly its own
\* turn with a non-empty reply.
C2_Witness ==
  \E t1, t2 \in ThreadIds :
    /\ t1 # t2
    /\ \A s \in Sessions : pc[s] = "idle"
    /\ recency = <<t2, t1>>
    /\ Ids(History(t1)) = {human_id(1), ai_id(1)}
    /\ Ids(History(t2)) = {human_id(2), ai_id(2)}
    /\ History(t1) = appended[t1] /\ History(t2) = appended[t2]
    /\ \A t \in {t1, t2} : History(t)[2].type = "ai" /\ History(t)[2].content # <<>>

\* every checkpoint row of every thread
Rows == UNION {Range(checkpoints[t]) : t \in ThreadIds}

C4_NoLostAppend ==
  \A t \in ThreadIds : ~InFlight(t) => Ids(appended[t]) \subseteq Ids(History(t))

\* C5: when the store raises during retrieve_all_threads or
\* get_conversation_history while it holds messages, the caller does not
\* receive what it receives for an empty store or an unknown thread id.
C5_ReadErrorSurfaced ==
  /\ (last.op = "read" /\ last.status = "store_error" /\ appended[last.thread_id] # <<>>) =>
       last.result # get_conversation_history([t \in ThreadIds |-> <<>>], last.thread_id, FALSE)
  /\ (last.op = "list" /\ last.status = "store_error" /\ recency # <<>>) =>
       Range(last.result) # retrieve_all_threads(<<>>, 0)

\* C6: after a turn in which the store raised, the session's message_history
\* holds no message that the stored history of its active thread does not hold.
C6_RolledBack ==
  (last.op = "turn" /\ last.status = "store_error") =>
    Range(message_history[last.session]) \subseteq
      Range(to_history(History(thread_id[last.session])))

\* C7: reloading the active conversation after a completed turn leaves
\* message_history as it was: the same (role, content) pairs in the same order.
C7_RoundTrip ==
  [][\A s \in Sessions :
       (/\ pc[s] = "idle"
        /\ message_history[s] # <<>>
        /\ message_history[s][Len(message_history[s])].role = "assistant"
        /\ last'.session = s /\ last'.op = "read" /\ last'.thread_id = thread_id[s])
       => message_history'[s] = message_history[s]]_vars

\* C8: a thread id that was never appended to reads as the empty sequence,
\* whether the store answers or raises, and load_conversation of it returns
\* with an empty message_history and the thread active.
C8_UnknownIsEmpty ==
  /\ \A t \in ThreadIds : appended[t] = <<>> =>
        \A raised \in BOOLEAN : get_conversation_history(checkpoints, t, raised) = <<>>
  /\ (last.op = "read" /\ appended[last.thread_id] = <<>>) =>
        /\ last.result = <<>>
        /\ message_history[last.session] = <<>>
        /\ thread_id[last.session] = last.thread_id
        /\ pc[last.session] = "idle"

\* C8 witness: load_conversation has just read a thread that was never
\* appended to, from a store that answered and holds another thread's messages.
C8_Witness ==
  /\ last.op = "read" /\ last.status = "ok"
  /\ appended[last.thread_id] = <<>>
  /\ \E t \in ThreadIds : History(t) # <<>>

\* C9: retrieve_all_threads returns exactly the thread ids that have a stored
\* message, each once.
C9_ListExact ==
  last.op = "list" =>
    /\ Range(last.result) = {t \in ThreadIds : appended[t] # <<>>}
    /\ Len(last.result) = Cardinality(Range(last.result))

\* C10: the stored history of a thread only grows at its end: what a read
\* returns before a step is a prefix of what it returns after the step.
C10_AppendOnly ==
  [][\A t \in ThreadIds : IsPrefix(History(t), History(t)')]_vars

\* the thread ids in use: active in a session, listed in a sidebar, or stored
InUse ==
  {thread_id[s] : s \in Sessions} \cup UNION {Range(chat_threads[s]) : s \in Sessions}
    \cup Range(recency) \cup {t \in ThreadIds : checkpoints[t] # <<>>}

\* C11: reset_chat and the first initialize_session_state make a thread id
\* active that was in use nowhere (no session's thread_id or chat_threads, no
\* row of the store), leave the session's message_history empty and write
\* nothing: the rows of the store and what retrieve_all_threads returns are
\* unchanged by the step, and a thread id has no row and is not listed as long
\* as no message was appended to it.
C11_StartNew ==
  [][/\ last'.op \in {"new", "list"} =>
          /\ thread_id'[last'.session] = last'.thread_id
          /\ last'.thread_id \notin InUse
          /\ message_history'[last'.session] = <<>>
          /\ checkpoints' = checkpoints
          /\ retrieve_all_threads(recency', Len(recency')) =
               retrieve_all_threads(recency, Len(recency))
     /\ \A t \in ThreadIds : appended'[t] = <<>> =>
          /\ checkpoints'[t] = <<>>
          /\ t \notin retrieve_all_threads(recency', Len(recency'))]_vars

\* C11 witness: reset_chat has just returned in a session whose previous
\* thread holds messages; the new thread is active and has no row.
C11_Witness ==
  /\ last.op = "new"
  /\ thread_id[last.session] = last.thread_id
  /\ checkpoints[last.thread_id] = <<>>
  /\ \E t \in Range(chat_threads[last.session]) : History(t) # <<>>

\* C12: when chat_node is entered (the step that saves the input checkpoint
\* and starts the provider call), the messages it passes to llm.invoke are
\* the stored history of the thread as it was before that step followed by
\* the user message of the turn, and none of them was appended to another
\* thread.
C12_FullSequence ==
  [][\A s \in Sessions :
       (pc[s] = "input" /\ pc'[s] = "node") =>
         LET t == run[s].thread_id
             u == HumanMessage(run[s].user_input, human_id(run[s].turn))
         IN /\ run'[s].messages = History(t) \o <<u>>
            /\ \A o \in ThreadIds \ {t} :
                 Ids(run'[s].messages) \cap Ids(appended'[o]) = {}]_vars

RECURSIVE Fragments(_, _)
\* the first n chunks of the reply of a turn, concatenated in arrival order
Fragments(turn, n) ==
  IF n = 0 THEN <<>> ELSE Fragments(turn, n - 1) \o chunk_content(turn, n)

\* C13: while a turn is in flight, the text the caller has assembled is the
\* concatenation of the chunks received so far in arrival order, and no
\* checkpoint row holds an assistant message of that turn, partial or
\* complete. When the turn completes, the last message of the thread's stored
\* history is the assistant message of the turn, its content is the
\* concatenation of all chunks of the turn in arrival order, and the same text
\* ends the session's message_history.
C13_NoPartialPersisted ==
  [][/\ \A s \in Sessions : pc'[s] \in {"input", "node"} =>
          /\ run'[s].full_response = Fragments(run'[s].turn, run'[s].nfrag)
          /\ \A row \in Rows' : ai_id(run'[s].turn) \notin Ids(row)
     /\ (last'.op = "turn" /\ last'.status = "ok") =>
          LET s == last'.session
              h == get_conversation_history(checkpoints', last'.thread_id, FALSE)
              mh == message_history'[s]
          IN /\ h # <<>>
             /\ h[Len(h)].type = "ai"
             /\ h[Len(h)].id = ai_id(last'.turn)
             /\ h[Len(h)].content = Fragments(last'.turn, run[s].nfrag)
             /\ mh[Len(mh)] = [role |-> "assistant", content |-> h[Len(h)].content]]_vars

\* C13 witness: a turn whose reply arrived in at least two chunks has just
\* completed and the reply ends the stored history of its thread.
C13_Witness ==
  /\ last.op = "turn" /\ last.status = "ok"
  /\ History(last.thread_id) # <<>>
  /\ LET h == History(last.thread_id)
     IN /\ h[Len(h)].id = ai_id(last.turn)
        /\ Len(h[Len(h)].content) >= 2
        /\ h[Len(h)].content = Fragments(last.turn, Len(h[Len(h)].content))

\* C14: in every session that has run initialize_session_state, whatever
\* reset_chat, load_conversation and turns followed, chat_threads contains the
\* session's thread_id and contains no thread id twice.
C14_ThreadListed ==
  \A s \in Sessions : pc[s] # "new" =>
    /\ thread_id[s] \in Range(chat_threads[s])
    /\ Cardinality(Range(chat_threads[s])) = Len(chat_threads[s])

\* C14 witness: a session whose sidebar lists two threads has just called
\* load_conversation of the older one: the active thread is the first of the
\* list, not the one appended last.
C14_Witness ==
  /\ last.op = "read"
  /\ Len(chat_threads[last.session]) = 2
  /\ thread_id[last.session] = chat_threads[last.session][1]

\* ------------------------------------------- one turn in flight per thread
\* handle_user_input when the interactive surface accepts no input for a
\* thread on which a turn is in flight
submit_serial(s) ==
  /\ pc[s] = "idle"
  /\ ~InFlight(thread_id[s])
  /\ submit(s)

NextSerial ==
  \/ \E s \in Sessions, k \in 0..Len(recency), raised \in BOOLEAN :
       initialize_session_state(s, k, raised)
  \/ \E s \in Sessions : reset_chat(s)
  \/ \E s \in Sessions, t \in ThreadIds, raised \in BOOLEAN : load_conversation(s, t, raised)
  \/ \E s \in Sessions : submit_serial(s)
  \/ \E s \in Sessions, raised \in BOOLEAN : put_input(s, raised)
  \/ \E s \in Sessions : stream_chunk(s)
  \/ \E s \in Sessions : provider_fails(s)
  \/ \E s \in Sessions, raised \in BOOLEAN : complete(s, raised)

SpecSerial == Init /\ [][NextSerial]_vars

\* the turn whose user message m is
turn_of(m) == (m.id + 1) \div 2

\* turn k on thread t has ended without a saved reply
FailedTurn(k, t) ==
  /\ \A s \in Sessions : run[s].turn # k
  /\ ai_id(k) \notin Ids(appended[t])

\* C15: with at most one turn in flight per thread id (SpecSerial), the
\* stored history of every thread starts with a user message when it is not
\* empty, every assistant message directly follows a user message (so no two
\* assistant messages are adjacent), and where two user messages are adjacent
\* the turn of the first one failed.
C15_Alternation ==
  \A t \in ThreadIds :
    LET h == History(t)
    IN /\ h # <<>> => h[1].type = "human"
       /\ \A i \in 1..Len(h) : h[i].type = "ai" => (i > 1 /\ h[i - 1].type = "human")
       /\ \A i \in 1..(Len(h) - 1) :
            (h[i].type = "human" /\ h[i + 1].type = "human") => FailedTurn(turn_of(h[i]), t)

\* C15 witness: on one thread a turn failed and the next one completed: the
\* stored history is two user messages followed by the reply to the second.
C15_Witness ==
  \E t \in ThreadIds :
    /\ ~InFlight(t)
    /\ Len(History(t)) = 3
    /\ History(t)[1].type = "human" /\ History(t)[2].type = "human"
    /\ History(t)[3].type = "ai" /\ History(t)[3].id = ai_id(turn_of(History(t)[2]))

\* C16: load_conversation(t) makes t the session's thread_id and sets
\* message_history to the stored history of t converted to (role, content)
\* entries, nothing else: no entry of the previous message_history is kept
\* beyond that; the rows of the store, what retrieve_all_threads returns and
\* chat_threads are unchanged.
C16_LoadReplaces ==
  [][last'.op = "read" =>
       /\ thread_id'[last'.session] = last'.thread_id
       /\ message_history'[last'.session] = to_history(History(last'.thread_id))
       /\ checkpoints' = checkpoints
       /\ recency' = recency
       /\ chat_threads' = chat_threads]_vars

====
